---- MODULE Spec2Model ----
(***************************************************************************)
(* A model of the NDJSON schema inferrer: the schema lattice               *)
(* (src/src/schema.rs), the chunker and the parallel driver                *)
(* (src/src/process.rs), the accumulator closures of process_file          *)
(* (src/src/main.rs) and the JSON-Schema emitter (src/src/json_schema.rs). *)
(*                                                                         *)
(* Bytes are their ASCII codes.  Strings and property keys are byte        *)
(* sequences.  An Option is a sequence of length 0 (None) or 1 (Some).     *)
(***************************************************************************)
EXTENDS Integers, Sequences, FiniteSets, TLC

VARIABLES
    config,         \* the Config of the run (schema.rs), read-only
    a, b, d, steps, \* three schemas built by infer_type and merge, and the
                    \* number of merges applied to them so far
    mmap,           \* ParallelJsonProcessor.mmap: the bytes of the file
    file_size,      \* ParallelJsonProcessor.file_size
    chunk_size,     \* ParallelJsonProcessor.chunk_size
    boundaries,     \* find_chunk_boundaries: the ranges pushed so far
    current_start,  \* find_chunk_boundaries: the cursor
    num_threads,    \* rayon: current_num_threads()
    tasks,          \* rayon: the tree of tasks of the fold/reduce, by path
    result,         \* what process_with_thread_state returned, once it has
    emitted,        \* the JSON-Schema document main writes, once it has
    pc              \* where the program is

mvars == <<a, b, d, steps>>
fvars == <<mmap, file_size, chunk_size>>
cvars == <<boundaries, current_start>>
rvars == <<num_threads, tasks, result>>
vars == <<config, a, b, d, steps, mmap, file_size, chunk_size, boundaries,
          current_start, num_threads, tasks, result, emitted, pc>>

\* ------------------------------------------------------------------ bounds

\* Largest value the model gives to max_object_keys.
MaxKeysBound == 2
\* Largest value the model gives to max_string_set_values.
MaxSetBound == 2
\* Number of merge steps a behaviour of SpecMerge takes on its three schemas.
MaxSteps == 2
\* Longest buffer the chunker is run on in SpecChunk.
MaxFileSize == 5
\* Largest chunk_size (besides usize::MAX) the chunker is run with.
MaxChunkSize == 4
\* Most lines a file of Spec has.
MaxLines == 4
\* Largest rayon pool Spec runs on.
MaxThreads == 2
\* Longest array in a record of SpecInfer.
MaxArrayLen == 3
\* Largest value SpecInfer gives to max_array_items.
MaxItemsBound == 2

\* ----------------------------------------------------------------- options

None == <<>>
Some(x) == <<x>>
IsSome(o) == Len(o) = 1
IsNone(o) == Len(o) = 0
Unwrap(o) == o[1]

\* ------------------------------------------------------------------- bytes

NL == 10
QUOTE == 34
COMMA == 44
DIGIT1 == 49
COLON == 58
LBRACKET == 91
RBRACKET == 93
LETTERA == 97
LETTERB == 98
LETTERC == 99
LBRACE == 123
RBRACE == 125

\* ------------------------------------------------------------------ cfg

\* Config of schema.rs; chunk_size lives on the processor and stats has no
\* effect on any result.
ConfigOf(k, n, l, ss, ai, m) ==
    [max_object_keys |-> k, max_string_set_values |-> n,
     max_string_set_variant_length |-> l, consider_string_set |-> ss,
     consider_array_items |-> ai, max_array_items |-> m]

\* The configurations the model runs under.
Configs ==
    { ConfigOf(k, n, 1, ss, ai, 2) :
        k \in 1..MaxKeysBound, n \in 1..MaxSetBound,
        ss \in BOOLEAN, ai \in BOOLEAN }

\* ---------------------------------------------------------------- TypeMask

STRINGT == "STRING"
BOOLEANT == "BOOLEAN"
NULL == "NULL"
ARRAY == "ARRAY"
OBJECT == "OBJECT"
I64 == "I64"
U64 == "U64"
F64 == "F64"
ABSENT == "ABSENT"
LARGE_OBJ == "LARGE_OBJ"
STRING_SET == "STRING_SET"

TypeMask ==
    {STRINGT, BOOLEANT, NULL, ARRAY, OBJECT, I64, U64, F64, ABSENT, LARGE_OBJ,
     STRING_SET}

\* ------------------------------------------------------------------ Schema

SchemaOf(mask, props, strs, items) ==
    [type_mask |-> mask, object_properties |-> props,
     string_values |-> strs, array_items |-> items]

\* Schema::new
SchemaNew(mask) == SchemaOf(mask, None, None, None)

\* Faulty variant of WithAbsent: the child is attached as it is.
WithAbsentDropped(s) == s

\* self_prop.type_mask |= TypeMask::ABSENT
WithAbsent(s) == [s EXCEPT !.type_mask = @ \cup {ABSENT}]

\* Faulty variant of CollapseToString: STRING is added, STRING_SET stays.
CollapseKeepsStringSet(mask) == mask \cup {STRINGT}

\* self.type_mask &= !STRING_SET; self.type_mask |= STRING
CollapseToString(mask) == (mask \ {STRING_SET}) \cup {STRINGT}

\* The string-set special case of merge (and the plain mask union when it
\* does not apply): the node after the first statement of merge.
MergeStringSet(self, other, cfg) ==
    IF cfg.consider_string_set
    THEN IF \/ STRING_SET \in self.type_mask /\ STRINGT \in other.type_mask
            \/ STRINGT \in self.type_mask /\ STRING_SET \in other.type_mask
         THEN [self EXCEPT !.type_mask = CollapseToString(@),
                           !.string_values = None]
         ELSE IF STRING_SET \in self.type_mask /\ STRING_SET \in other.type_mask
         THEN \* string_values_set = take(self.string_values); whatever the
              \* branches assign to self.string_values is overwritten by the
              \* final self.string_values = string_values_set.
              IF IsSome(self.string_values)
              THEN IF IsSome(other.string_values)
                   THEN IF Cardinality(Unwrap(self.string_values))
                             + Cardinality(Unwrap(other.string_values))
                             > cfg.max_string_set_values
                        THEN [self EXCEPT
                                !.type_mask = CollapseToString(@)]
                        ELSE [self EXCEPT
                                !.string_values =
                                    Some(Unwrap(self.string_values)
                                         \cup Unwrap(other.string_values))]
                   ELSE self
              ELSE self
         ELSE [self EXCEPT !.type_mask = @ \cup other.type_mask]
    ELSE [self EXCEPT !.type_mask = @ \cup other.type_mask]

\* Faulty variant of ObjectCutoffApplies: max_object_keys properties suffice.
ObjectCutoffAtBound(self, cfg) ==
    /\ OBJECT \in self.type_mask
    /\ IsSome(self.object_properties)
    /\ Cardinality(DOMAIN Unwrap(self.object_properties)) >= cfg.max_object_keys

\* The object cutoff test of merge: self has OBJECT and more properties than
\* max_object_keys.
ObjectCutoffApplies(self, cfg) ==
    /\ OBJECT \in self.type_mask
    /\ IsSome(self.object_properties)
    /\ Cardinality(DOMAIN Unwrap(self.object_properties)) > cfg.max_object_keys

\* The node the cutoff leaves.
ObjectCutoff(self) ==
    [self EXCEPT !.type_mask = (@ \ {OBJECT}) \cup {LARGE_OBJ},
                 !.object_properties = None]

RECURSIVE merge(_, _, _)

\* Faulty variant of MergeArrayItems: self is not tested for ARRAY.
MergeArrayItemsUntested(self, other, cfg) ==
    IF /\ cfg.consider_array_items
       /\ ARRAY \in other.type_mask
    THEN IF IsSome(self.array_items) /\ IsSome(other.array_items)
         THEN [self EXCEPT !.array_items =
                  Some(merge(Unwrap(self.array_items),
                             Unwrap(other.array_items), cfg))]
         ELSE IF IsNone(self.array_items) /\ IsSome(other.array_items)
         THEN [self EXCEPT !.array_items = other.array_items]
         ELSE self
    ELSE self

\* Faulty variant of MergeArrayItems: an other without items clobbers self's.
MergeArrayItemsClobbers(self, other, cfg) ==
    IF /\ cfg.consider_array_items
       /\ ARRAY \in self.type_mask
       /\ ARRAY \in other.type_mask
    THEN IF IsSome(self.array_items) /\ IsSome(other.array_items)
         THEN [self EXCEPT !.array_items =
                  Some(merge(Unwrap(self.array_items),
                             Unwrap(other.array_items), cfg))]
         ELSE [self EXCEPT !.array_items = other.array_items]
    ELSE self

\* The array special case of merge.
MergeArrayItems(self, other, cfg) ==
    IF /\ cfg.consider_array_items
       /\ ARRAY \in self.type_mask
       /\ ARRAY \in other.type_mask
    THEN IF IsSome(self.array_items) /\ IsSome(other.array_items)
         THEN [self EXCEPT !.array_items =
                  Some(merge(Unwrap(self.array_items),
                             Unwrap(other.array_items), cfg))]
         ELSE IF IsNone(self.array_items) /\ IsSome(other.array_items)
         THEN [self EXCEPT !.array_items = other.array_items]
         ELSE self
    ELSE self

\* The final match of merge on (self.object_properties, other.object_properties).
MergeObjectProperties(self, other, cfg) ==
    IF IsSome(self.object_properties) /\ IsSome(other.object_properties)
    THEN LET sp == Unwrap(self.object_properties)
             op == Unwrap(other.object_properties)
         IN [self EXCEPT !.object_properties =
               Some([key \in DOMAIN sp \cup DOMAIN op |->
                       IF key \in DOMAIN sp /\ key \in DOMAIN op
                       THEN merge(sp[key], op[key], cfg)
                       ELSE IF key \in DOMAIN op
                       THEN WithAbsent(op[key])
                       ELSE WithAbsent(sp[key])])]
    ELSE IF IsNone(self.object_properties) /\ IsSome(other.object_properties)
    THEN LET op == Unwrap(other.object_properties)
         IN [self EXCEPT !.object_properties =
               Some([key \in DOMAIN op |-> WithAbsent(op[key])])]
    ELSE IF IsSome(self.object_properties) /\ IsNone(other.object_properties)
    THEN LET sp == Unwrap(self.object_properties)
         IN [self EXCEPT !.object_properties =
               Some([key \in DOMAIN sp |-> WithAbsent(sp[key])])]
    ELSE self

\* Schema::merge: the value left in self by self.merge(other, cfg).
merge(self, other, cfg) ==
    LET s1 == MergeStringSet(self, other, cfg)
        s2 == MergeArrayItems(s1, other, cfg)
    IN IF ObjectCutoffApplies(s2, cfg)
       THEN ObjectCutoff(s2)
       ELSE MergeObjectProperties(s2, other, cfg)

RECURSIVE Nodes(_)

\* Every schema node reachable from s: s itself, its property children and
\* its array items, at any depth.
Nodes(s) ==
    {s}
    \cup (IF IsSome(s.object_properties)
          THEN UNION { Nodes(Unwrap(s.object_properties)[key]) :
                         key \in DOMAIN Unwrap(s.object_properties) }
          ELSE {})
    \cup (IF IsSome(s.array_items) THEN Nodes(Unwrap(s.array_items)) ELSE {})

\* ----------------------------------------------------------------- emitter

\* JsonSchemaType, by the string it serializes to.
TypeString == "string"
TypeNumber == "number"
TypeBoolean == "boolean"
TypeNull == "null"
TypeArray == "array"
TypeObject == "object"

\* The pushes of From<Schema> onto result.schema_type, in program order.
SchemaTypeOf(mask) ==
    (IF ARRAY \in mask THEN <<TypeArray>> ELSE <<>>)
    \o (IF STRINGT \in mask THEN <<TypeString>> ELSE <<>>)
    \o (IF I64 \in mask \/ U64 \in mask \/ F64 \in mask
        THEN <<TypeNumber>> ELSE <<>>)
    \o (IF BOOLEANT \in mask THEN <<TypeBoolean>> ELSE <<>>)
    \o (IF NULL \in mask THEN <<TypeNull>> ELSE <<>>)
    \o (IF OBJECT \in mask THEN <<TypeObject>> ELSE <<>>)
    \o (IF STRING_SET \in mask THEN <<TypeString>> ELSE <<>>)

\* Faulty variant of RequiredOf: every key is required.
RequiredOfAllKeys(props) == DOMAIN props

\* The keys From<Schema> pushes onto result.required.  The Vec is filled in
\* the iteration order of a HashMap; the model keeps its elements.
RequiredOf(props) == { key \in DOMAIN props : ABSENT \notin props[key].type_mask }

RECURSIVE JsonSchemaFrom(_)

\* impl From<Schema> for JsonSchema
JsonSchemaFrom(schema) ==
    [description |-> IF LARGE_OBJ \in schema.type_mask
                     THEN Some("Large object") ELSE None,
     schema_type |-> SchemaTypeOf(schema.type_mask),
     properties  |-> IF IsSome(schema.object_properties)
                     THEN [key \in DOMAIN Unwrap(schema.object_properties) |->
                             JsonSchemaFrom(Unwrap(schema.object_properties)[key])]
                     ELSE <<>>,
     items       |-> IF ARRAY \in schema.type_mask /\ IsSome(schema.array_items)
                     THEN Some(JsonSchemaFrom(Unwrap(schema.array_items)))
                     ELSE None,
     required    |-> IF IsSome(schema.object_properties)
                     THEN RequiredOf(Unwrap(schema.object_properties))
                     ELSE {},
     any_of      |-> IF /\ STRING_SET \in schema.type_mask
                        /\ IsSome(schema.string_values)
                     THEN << [type |-> TypeString,
                              enum |-> Unwrap(schema.string_values)] >>
                     ELSE <<>>]

\* Faulty variant of SerializeType: a single type is written as an array too.
SerializeTypeAlwaysArray(schema_type) ==
    IF schema_type = <<>>
    THEN None
    ELSE Some([scalar |-> FALSE, types |-> schema_type])

\* The "type" entry of impl Serialize for JsonSchema: none for an empty list,
\* the one type for a list of one, the list otherwise.
SerializeType(schema_type) ==
    IF schema_type = <<>>
    THEN None
    ELSE IF Len(schema_type) = 1
    THEN Some([scalar |-> TRUE, types |-> schema_type])
    ELSE Some([scalar |-> FALSE, types |-> schema_type])

RECURSIVE Serialize(_)

\* impl Serialize for JsonSchema: the entries of the map written, an entry
\* left out being None.
Serialize(js) ==
    [description |-> js.description,
     type        |-> SerializeType(js.schema_type),
     properties  |-> IF DOMAIN js.properties = {}
                     THEN None
                     ELSE Some([key \in DOMAIN js.properties |->
                                  Serialize(js.properties[key])]),
     items       |-> IF IsSome(js.items)
                     THEN Some(Serialize(Unwrap(js.items))) ELSE None,
     required    |-> IF js.required = {} THEN None ELSE Some(js.required),
     anyOf       |-> IF js.any_of = <<>> THEN None ELSE Some(js.any_of)]

\* ------------------------------------------------------------- JSON values

\* simd_json::BorrowedValue
JStatic(node) == [kind |-> "Static", node |-> node]
JString(s) == [kind |-> "String", value |-> s]
JArray(elems) == [kind |-> "Array", arr |-> elems]
JObject(fields) == [kind |-> "Object", inner |-> fields]

\* Faulty variant of Take: one element more is taken.
TakeOneMore(seq, n) ==
    SubSeq(seq, 1, IF Len(seq) < n + 1 THEN Len(seq) ELSE n + 1)

\* arr.iter().take(n)
Take(seq, n) == SubSeq(seq, 1, IF Len(seq) < n THEN Len(seq) ELSE n)

\* Faulty variant of TooLongForSet: the bound itself is too long.
TooLongForSetAtBound(len, cfg) == len >= cfg.max_string_set_variant_length

\* value.len() > config.max_string_set_variant_length
TooLongForSet(len, cfg) == len > cfg.max_string_set_variant_length

RECURSIVE infer_type(_, _)
RECURSIVE FoldItems(_, _, _)

\* The loop of infer_type over the sampled elements of an array: item_schema
\* after the elements of elems have been folded in.
FoldItems(item_schema, elems, cfg) ==
    IF elems = <<>>
    THEN item_schema
    ELSE LET element_schema == infer_type(Head(elems), cfg)
         IN FoldItems(IF IsSome(item_schema)
                      THEN Some(merge(Unwrap(item_schema), element_schema, cfg))
                      ELSE Some(element_schema),
                      Tail(elems), cfg)

infer_type(value, cfg) ==
    CASE value.kind = "Static" ->
           SchemaNew({CASE value.node = "I64" -> I64
                        [] value.node = "U64" -> U64
                        [] value.node = "F64" -> F64
                        [] value.node = "Bool" -> BOOLEANT
                        [] value.node = "Null" -> NULL})
      [] value.kind = "String" ->
           IF ~cfg.consider_string_set
           THEN SchemaNew({STRINGT})
           ELSE IF TooLongForSet(Len(value.value), cfg)
           THEN SchemaNew({STRINGT})
           ELSE SchemaOf({STRING_SET}, None, Some({value.value}), None)
      [] value.kind = "Array" ->
           IF ~cfg.consider_array_items
           THEN SchemaNew({ARRAY})
           ELSE SchemaOf({ARRAY}, None, None,
                         FoldItems(None, Take(value.arr, cfg.max_array_items),
                                   cfg))
      [] value.kind = "Object" ->
           SchemaOf({OBJECT},
                    Some([key \in DOMAIN value.inner |->
                            infer_type(value.inner[key], cfg)]),
                    None, None)

\* ----------------------------------------------------------------- chunker

\* usize::MAX, scaled to the integers TLC computes with.
USIZE_MAX == 2147483647

\* usize::saturating_add
saturating_add(x, y) == IF y > USIZE_MAX - x THEN USIZE_MAX ELSE x + y

Min(x, y) == IF x < y THEN x ELSE y

\* self.mmap[i], the byte at 0-based index i
ByteAt(buf, i) == buf[i + 1]

\* &self.mmap[start..end]
Slice(buf, start, end) == SubSeq(buf, start + 1, end)

\* Faulty variant of TentativeEnd: only half of chunk_size is added to the cursor.
TentativeEndHalved(start, size, fsize) ==
    Min(saturating_add(start, size \div 2), fsize)

\* tentative_end of one iteration of find_chunk_boundaries
TentativeEnd(start, size, fsize) == Min(saturating_add(start, size), fsize)

\* Faulty variant of ScanNewline: the tentative end is taken as it is, no scan.
ScanNewlineSkipped(buf, fsize, from) == from

RECURSIVE ScanNewline(_, _, _)

\* The inner while loop: actual_end after scanning forward from `from` to
\* the first newline or to the end of the file.
ScanNewline(buf, fsize, from) ==
    IF from < fsize /\ ByteAt(buf, from) # NL
    THEN ScanNewline(buf, fsize, from + 1)
    ELSE from

\* Faulty variant of NextStart: the cursor moves one byte too far.
NextStartPastOne(actual_end) == actual_end + 2

\* current_start = actual_end + 1
NextStart(actual_end) == actual_end + 1

\* One iteration of the outer while loop of find_chunk_boundaries, from the
\* loop state st = [boundaries, current_start, done]; done is the break.
ChunkIter(buf, fsize, size, st) ==
    LET tentative_end == TentativeEnd(st.current_start, size, fsize)
        actual_end == ScanNewline(buf, fsize, tentative_end)
    IN IF tentative_end >= fsize
       THEN [boundaries |-> Append(st.boundaries, <<st.current_start, fsize>>),
             current_start |-> st.current_start, done |-> TRUE]
       ELSE IF actual_end >= fsize
       THEN [boundaries |-> Append(st.boundaries, <<st.current_start, fsize>>),
             current_start |-> st.current_start, done |-> TRUE]
       ELSE [boundaries |-> Append(st.boundaries,
                                   <<st.current_start, actual_end + 1>>),
             current_start |-> NextStart(actual_end), done |-> FALSE]

RECURSIVE ChunkLoop(_, _, _, _)

\* The outer while loop run to its end.
ChunkLoop(buf, fsize, size, st) ==
    IF st.done \/ ~(st.current_start < fsize)
    THEN st.boundaries
    ELSE ChunkLoop(buf, fsize, size, ChunkIter(buf, fsize, size, st))

\* find_chunk_boundaries
find_chunk_boundaries(buf, fsize, size) ==
    ChunkLoop(buf, fsize, size,
              [boundaries |-> <<>>, current_start |-> 0, done |-> FALSE])

RECURSIVE BytesUpTo(_)

\* Every buffer of at most n bytes over {newline, '1'}.
BytesUpTo(n) ==
    IF n = 0
    THEN {<<>>}
    ELSE LET shorter == BytesUpTo(n - 1)
         IN shorter \cup { Append(buf, byte) :
                             buf \in {x \in shorter : Len(x) = n - 1},
                             byte \in {NL, DIGIT1} }

ChunkSizes == (0..MaxChunkSize) \cup {USIZE_MAX}

\* ParallelJsonProcessor::new, then the entry of find_chunk_boundaries.
InitChunk ==
    /\ mmap \in BytesUpTo(MaxFileSize)
    /\ file_size = Len(mmap)
    /\ chunk_size \in ChunkSizes
    /\ boundaries = <<>>
    /\ current_start = 0
    /\ pc = "chunking"
    /\ config = ConfigOf(1, 1, 1, FALSE, FALSE, 2)
    /\ a = SchemaNew({}) /\ b = SchemaNew({}) /\ d = SchemaNew({}) /\ steps = 0
    /\ num_threads = 1 /\ tasks = <<>> /\ result = None
    /\ emitted = None

\* One iteration of the while loop of find_chunk_boundaries.
ChunkIteration ==
    /\ pc = "chunking"
    /\ current_start < file_size
    /\ LET st == ChunkIter(mmap, file_size, chunk_size,
                           [boundaries |-> boundaries,
                            current_start |-> current_start, done |-> FALSE])
       IN /\ boundaries' = st.boundaries
          /\ current_start' = st.current_start
          /\ pc' = IF st.done THEN "chunked" ELSE "chunking"
    /\ UNCHANGED <<config, emitted, mvars, fvars, rvars>>

\* The loop condition fails: find_chunk_boundaries returns boundaries.
ChunkReturn ==
    /\ pc = "chunking"
    /\ ~(current_start < file_size)
    /\ pc' = "chunked"
    /\ UNCHANGED <<config, emitted, mvars, fvars, cvars, rvars>>

NextChunk == ChunkIteration \/ ChunkReturn

SpecChunk == InitChunk /\ [][NextChunk]_vars

\* C7: the ranges find_chunk_boundaries returns partition [0, N): the first
\* starts at 0, each next one starts where the previous one ends, the last
\* ends at N, and every byte index lies in exactly one range.
ChunksPartitionFile ==
    pc = "chunked" =>
        /\ file_size = 0 => boundaries = <<>>
        /\ file_size > 0 =>
             /\ Len(boundaries) >= 1
             /\ boundaries[1][1] = 0
             /\ boundaries[Len(boundaries)][2] = file_size
        /\ \A i \in 1..(Len(boundaries) - 1) :
             boundaries[i + 1][1] = boundaries[i][2]
        /\ \A x \in 0..(file_size - 1) :
             Cardinality({ i \in 1..Len(boundaries) :
                             boundaries[i][1] <= x /\ x < boundaries[i][2] }) = 1

\* A file cut into at least three ranges.
ChunksPartitionFileWitness == pc = "chunked" /\ Len(boundaries) >= 3

\* C8: every range end pushed is N or lies immediately past a newline byte.
ChunkEndsAfterNewline ==
    \A i \in 1..Len(boundaries) :
        \/ boundaries[i][2] = file_size
        \/ /\ boundaries[i][2] >= 1
           /\ ByteAt(mmap, boundaries[i][2] - 1) = NL

\* A range that ends before N, at a newline found by scanning past the
\* tentative end.
ChunkEndsAfterNewlineWitness ==
    /\ pc = "chunked"
    /\ \E i \in 1..Len(boundaries) :
         /\ boundaries[i][2] < file_size
         /\ boundaries[i][2] > boundaries[i][1] + chunk_size + 1

\* C9: every returned range other than the final one has length >= chunk_size.
ChunkLengthAtLeastSize ==
    pc = "chunked" =>
        \A i \in 1..(Len(boundaries) - 1) :
            boundaries[i][2] - boundaries[i][1] >= chunk_size

\* Two or more ranges under a chunk size of at least 2.
ChunkLengthAtLeastSizeWitness ==
    pc = "chunked" /\ Len(boundaries) >= 2 /\ chunk_size >= 2

\* ----------------------------------------------------------- merge laboratory

Key(c) == <<c>>
ONE == JStatic("I64")

\* The JSON values whose inferred schemas start a behaviour of SpecMerge.
SampleValues ==
    { JStatic("Null"), ONE,
      JString(<<LETTERA>>), JString(<<LETTERB>>), JString(<<LETTERA, LETTERA>>),
      JArray(<<ONE>>), JArray(<<>>),
      JArray(<<JString(<<LETTERA>>), JString(<<LETTERB>>)>>),
      JObject([key \in {Key(LETTERA)} |-> ONE]),
      JObject([key \in {Key(LETTERB)} |-> JString(<<LETTERA>>)]),
      JObject([key \in {Key(LETTERA), Key(LETTERB)} |-> ONE]) }

InitMerge ==
    /\ config \in Configs
    /\ a \in { infer_type(v, config) : v \in SampleValues }
    /\ b \in { infer_type(v, config) : v \in SampleValues }
    /\ d \in { infer_type(v, config) : v \in SampleValues }
    /\ steps = 0
    /\ mmap = <<>> /\ file_size = 0 /\ chunk_size = 0
    /\ boundaries = <<>> /\ current_start = 0
    /\ num_threads = 1 /\ tasks = <<>> /\ result = None
    /\ emitted = None
    /\ pc = "merge"

\* a.merge(b, config), as the reducer closure of process_file applies it
MergeAB ==
    /\ pc = "merge"
    /\ steps < MaxSteps
    /\ a' = merge(a, b, config)
    /\ steps' = steps + 1
    /\ UNCHANGED <<config, emitted, b, d, fvars, cvars, rvars, pc>>

\* b.merge(a, config)
MergeBA ==
    /\ pc = "merge"
    /\ steps < MaxSteps
    /\ b' = merge(b, a, config)
    /\ steps' = steps + 1
    /\ UNCHANGED <<config, emitted, a, d, fvars, cvars, rvars, pc>>

\* b.merge(d, config)
MergeBD ==
    /\ pc = "merge"
    /\ steps < MaxSteps
    /\ b' = merge(b, d, config)
    /\ steps' = steps + 1
    /\ UNCHANGED <<config, emitted, a, d, fvars, cvars, rvars, pc>>

\* d.merge(b, config)
MergeDB ==
    /\ pc = "merge"
    /\ steps < MaxSteps
    /\ d' = merge(d, b, config)
    /\ steps' = steps + 1
    /\ UNCHANGED <<config, emitted, a, b, fvars, cvars, rvars, pc>>

NextMerge == MergeAB \/ MergeBA \/ MergeBD \/ MergeDB

SpecMerge == InitMerge /\ [][NextMerge]_vars

\* main: RootJsonSchema::new(root_schema.clone()) written out, a being the
\* root schema.  The "$schema" entry of the root, a fixed string, is left out.
Emit ==
    /\ pc = "merge"
    /\ emitted' = Some(Serialize(JsonSchemaFrom(a)))
    /\ pc' = "emitted"
    /\ UNCHANGED <<config, mvars, fvars, cvars, rvars>>

NextEmit == MergeAB \/ MergeBA \/ MergeBD \/ MergeDB \/ Emit

\* The schemas of SpecMerge, the first of which is emitted at some point.
SpecEmit == InitMerge /\ [][NextEmit]_vars

\* C1: merge is commutative: the schema a.merge(b) leaves in a equals the
\* schema b.merge(a) leaves in b.
MergeCommutative == merge(a, b, config) = merge(b, a, config)

\* C2: merge is associative: (a merge b) merge d equals a merge (b merge d).
MergeAssociative ==
    merge(merge(a, b, config), d, config) = merge(a, merge(b, d, config), config)

\* C10 (invariant I1): after every merge no node of any schema has both
\* LARGE_OBJ and OBJECT in its type_mask.
LargeObjectExcludesObject ==
    \A s \in {a, b, d} : \A n \in Nodes(s) :
        ~(LARGE_OBJ \in n.type_mask /\ OBJECT \in n.type_mask)

\* C11 (invariant I2): on every node of the schema a merge leaves, a populated
\* object_properties comes with OBJECT in the type_mask and holds at most
\* max_object_keys properties.
PropertiesWithinObjectBound ==
    \A n \in Nodes(merge(a, b, config)) :
        IsSome(n.object_properties) =>
            /\ OBJECT \in n.type_mask
            /\ Cardinality(DOMAIN Unwrap(n.object_properties))
                 <= config.max_object_keys

\* C12 (invariant I3): on every node of the schema a merge leaves, a populated
\* string_values comes with STRING_SET, holds at most max_string_set_values
\* members, each of length at most max_string_set_variant_length; and a node
\* whose mask has STRING instead of STRING_SET has no string_values.
StringValuesWithinBounds ==
    \A n \in Nodes(merge(a, b, config)) :
        /\ IsSome(n.string_values) =>
              /\ STRING_SET \in n.type_mask
              /\ Cardinality(Unwrap(n.string_values))
                   <= config.max_string_set_values
              /\ \A v \in Unwrap(n.string_values) :
                   Len(v) <= config.max_string_set_variant_length
        /\ (STRINGT \in n.type_mask /\ STRING_SET \notin n.type_mask) =>
              IsNone(n.string_values)

\* C13 (invariant I4): under one Config, no node of a schema built by
\* infer_type and any sequence of merges has both STRING_SET and STRING.
StringSetExcludesString ==
    \A s \in {a, b, d} : \A n \in Nodes(s) :
        ~(STRING_SET \in n.type_mask /\ STRINGT \in n.type_mask)

\* A merge has collapsed a string set: the node has STRING and still holds the
\* values its set had.
StringSetExcludesStringWitness ==
    /\ steps >= 1
    /\ \E s \in {a, b, d} : \E n \in Nodes(s) :
         STRINGT \in n.type_mask /\ IsSome(n.string_values)

\* The schema has a populated property map.
HasProperties(s) == IsSome(s.object_properties)

\* The keys of the property map of s.
KeysOf(s) == DOMAIN Unwrap(s.object_properties)

\* C14: a, b and d being the schemas of three records, in the fold of the
\* three under either grouping every property whose key one of the observed
\* objects lacks carries ABSENT.
AbsentOnMissingKeys ==
    steps = 0 =>
        \A r \in { merge(merge(a, b, config), d, config),
                   merge(a, merge(b, d, config), config) } :
            HasProperties(r) =>
                \A key \in KeysOf(r) :
                    (\E s \in {a, b, d} :
                        HasProperties(s) /\ key \notin KeysOf(s))
                    => ABSENT \in Unwrap(r.object_properties)[key].type_mask

\* No node of s is beyond a threshold of cfg: every string set (whose union
\* with itself is the set) has at most max_string_set_values members and every
\* property map at most max_object_keys keys.
NoThresholdCrossed(s, cfg) ==
    \A n \in Nodes(s) :
        /\ IsSome(n.string_values) =>
              Cardinality(Unwrap(n.string_values)) <= cfg.max_string_set_values
        /\ HasProperties(n) =>
              Cardinality(KeysOf(n)) <= cfg.max_object_keys

\* C16: merging a clone of a schema inferred from one record into it leaves
\* it unchanged, when the schema is beyond no threshold.
MergeIdempotent ==
    (steps = 0 /\ NoThresholdCrossed(a, config)) => merge(a, a, config) = a

\* The node is a string set holding its values.
IsStringSet(s) == STRING_SET \in s.type_mask /\ IsSome(s.string_values)

\* C17: a string set with exactly max_string_set_values members stays a
\* STRING_SET with the same members when the string set merged into it brings
\* no new member: the union, not the sum of the sizes, decides the collapse.
FullStringSetKeptWithoutNewMember ==
    (/\ config.consider_string_set
     /\ IsStringSet(a) /\ IsStringSet(b)
     /\ Cardinality(Unwrap(a.string_values)) = config.max_string_set_values
     /\ Unwrap(b.string_values) \subseteq Unwrap(a.string_values))
    => LET r == merge(a, b, config)
       IN /\ STRING_SET \in r.type_mask
          /\ STRINGT \notin r.type_mask
          /\ r.string_values = a.string_values

\* The node is an object holding its properties.
IsObject(s) == OBJECT \in s.type_mask /\ HasProperties(s)

\* C18: an object schema of exactly max_object_keys + 1 keys merged with any
\* object schema gives LARGE_OBJ without OBJECT and without properties,
\* whichever of the two is self.
OversizeObjectCollapses ==
    (/\ IsObject(a) /\ IsObject(b)
     /\ Cardinality(KeysOf(a)) = config.max_object_keys + 1)
    => \A r \in {merge(a, b, config), merge(b, a, config)} :
          /\ LARGE_OBJ \in r.type_mask
          /\ OBJECT \notin r.type_mask
          /\ IsNone(r.object_properties)

RECURSIVE EmittedPairs(_, _)

\* Every node of schema paired with the part of the document doc written for
\* it: the node itself, its properties and its items, at any depth.
EmittedPairs(schema, doc) ==
    {<<schema, doc>>}
    \cup (IF IsSome(doc.properties)
          THEN UNION { EmittedPairs(Unwrap(schema.object_properties)[key],
                                    Unwrap(doc.properties)[key]) :
                         key \in DOMAIN Unwrap(doc.properties) }
          ELSE {})
    \cup (IF IsSome(doc.items)
          THEN EmittedPairs(Unwrap(schema.array_items), Unwrap(doc.items))
          ELSE {})

\* The nodes of the root schema with what was written for them.
Emitted == EmittedPairs(a, Unwrap(emitted))

\* The elements of an entry of the document, none when the entry is left out.
EntryOf(entry) == IF IsSome(entry) THEN Unwrap(entry) ELSE {}

\* The keys of the properties entry of a document, none when it is left out.
PropertyNames(doc) ==
    IF IsSome(doc.properties) THEN DOMAIN Unwrap(doc.properties) ELSE {}

\* C19: in the document written for a node with object_properties, required
\* holds exactly the keys whose child has no ABSENT in its type_mask, and
\* every key of object_properties is a key of properties.
RequiredIsKeysWithoutAbsent ==
    pc = "emitted" =>
        \A pair \in Emitted :
            HasProperties(pair[1]) =>
                /\ EntryOf(pair[2].required) =
                     { key \in KeysOf(pair[1]) :
                         ABSENT \notin
                           Unwrap(pair[1].object_properties)[key].type_mask }
                /\ KeysOf(pair[1]) \subseteq PropertyNames(pair[2])

\* An object written with one key required and another not.
RequiredIsKeysWithoutAbsentWitness ==
    /\ pc = "emitted"
    /\ steps >= 1
    /\ \E pair \in Emitted :
         /\ HasProperties(pair[1])
         /\ EntryOf(pair[2].required) # {}
         /\ EntryOf(pair[2].required) # KeysOf(pair[1])

\* The JSON-Schema types the tags of a mask stand for.
TypesOf(mask) ==
    { t \in {TypeString, TypeNumber, TypeBoolean, TypeNull, TypeArray,
              TypeObject} :
        \/ t = TypeString /\ (STRINGT \in mask \/ STRING_SET \in mask)
        \/ t = TypeNumber /\ (I64 \in mask \/ U64 \in mask \/ F64 \in mask)
        \/ t = TypeBoolean /\ BOOLEANT \in mask
        \/ t = TypeNull /\ NULL \in mask
        \/ t = TypeArray /\ ARRAY \in mask
        \/ t = TypeObject /\ OBJECT \in mask }

\* The type entry lists exactly the types of the set, each once, as an array.
IsTypeArray(entry, types) ==
    /\ IsSome(entry)
    /\ ~Unwrap(entry).scalar
    /\ Len(Unwrap(entry).types) = Cardinality(types)
    /\ { Unwrap(entry).types[i] : i \in 1..Len(Unwrap(entry).types) } = types

\* The type entry is the one type of the set, as a scalar.
IsTypeScalar(entry, types) ==
    /\ IsSome(entry)
    /\ Unwrap(entry).scalar
    /\ \E t \in types : Unwrap(entry).types = <<t>>

LargeObjectEmittedWithoutProperties ==
    pc = "emitted" =>
        \A pair \in Emitted :
            LARGE_OBJ \in pair[1].type_mask =>
                /\ pair[2].description = Some("Large object")
                /\ IsNone(pair[2].properties)

\* The tags rule M1 carries over unconditionally.
PlainTags == {BOOLEANT, NULL, I64, U64, F64, ARRAY, ABSENT}

\* C22 (M1): every tag among BOOLEAN, NULL, I64, U64, F64, ARRAY and ABSENT
\* set in a or in b is set in a after a.merge(b).
PlainTagsUnited ==
    (PlainTags \cap (a.type_mask \cup b.type_mask))
        \subseteq merge(a, b, config).type_mask

\* One of the two nodes has STRING_SET and the other STRING.
StringMeetsStringSet(x, y) ==
    \/ STRING_SET \in x.type_mask /\ STRINGT \in y.type_mask
    \/ STRINGT \in x.type_mask /\ STRING_SET \in y.type_mask

\* The node is a plain STRING: the tag set, STRING_SET cleared, no values.
CollapsedToString(r) ==
    /\ STRINGT \in r.type_mask
    /\ STRING_SET \notin r.type_mask
    /\ IsNone(r.string_values)

\* C23: with consider_string_set, a.merge(b) where one operand has STRING_SET
\* and the other STRING leaves STRING set, STRING_SET cleared and no
\* string_values.
StringAbsorbsStringSet ==
    (config.consider_string_set /\ StringMeetsStringSet(a, b))
        => CollapsedToString(merge(a, b, config))

\* A string set that a merge has grown to two values faces a STRING.
StringAbsorbsStringSetWitness ==
    /\ steps >= 1
    /\ config.consider_string_set
    /\ IsStringSet(a) /\ Cardinality(Unwrap(a.string_values)) >= 2
    /\ STRINGT \in b.type_mask

\* C24: with consider_string_set, a.merge(b) of two string sets whose union
\* has more than max_string_set_values members leaves STRING set, STRING_SET
\* cleared and no string_values.
StringSetOverflowCollapses ==
    (/\ config.consider_string_set
     /\ IsStringSet(a) /\ IsStringSet(b)
     /\ Cardinality(Unwrap(a.string_values) \cup Unwrap(b.string_values))
          > config.max_string_set_values)
    => CollapsedToString(merge(a, b, config))

\* C25: with consider_string_set, a.merge(b) of two string sets whose union
\* has at most max_string_set_values members keeps STRING_SET with exactly the
\* union as string_values; and an a without string tag that gains STRING_SET
\* from b carries b's string_values.
StringSetsUnited ==
    config.consider_string_set =>
        /\ (/\ IsStringSet(a) /\ IsStringSet(b)
            /\ Cardinality(Unwrap(a.string_values) \cup Unwrap(b.string_values))
                 <= config.max_string_set_values)
           => /\ STRING_SET \in merge(a, b, config).type_mask
              /\ merge(a, b, config).string_values =
                   Some(Unwrap(a.string_values) \cup Unwrap(b.string_values))
        /\ (/\ {STRINGT, STRING_SET} \cap a.type_mask = {}
            /\ IsStringSet(b))
           => /\ STRING_SET \in merge(a, b, config).type_mask
              /\ merge(a, b, config).string_values = b.string_values

\* C26 (M3): with consider_array_items and ARRAY on both operands, the
\* array_items a.merge(b) leaves is the merge of the two item schemas when
\* both have one, the one present when exactly one has, and none otherwise.
ArrayItemsMerged ==
    (/\ config.consider_array_items
     /\ ARRAY \in a.type_mask /\ ARRAY \in b.type_mask)
    => merge(a, b, config).array_items =
         IF IsSome(a.array_items) /\ IsSome(b.array_items)
         THEN Some(merge(Unwrap(a.array_items), Unwrap(b.array_items), config))
         ELSE IF IsSome(a.array_items)
         THEN a.array_items
         ELSE b.array_items

\* An empty-array observation faces an array whose item schema a merge has
\* widened.
ArrayItemsMergedWitness ==
    /\ steps >= 1
    /\ config.consider_array_items
    /\ ARRAY \in a.type_mask /\ ARRAY \in b.type_mask
    /\ IsNone(a.array_items) /\ IsSome(b.array_items)
    /\ Cardinality(Unwrap(b.array_items).type_mask) >= 2

\* C27 (M4): if a has OBJECT and more than max_object_keys properties when
\* a.merge(b) starts, it ends with LARGE_OBJ, without OBJECT and without
\* properties; if a has at most max_object_keys properties the merge applies
\* no cutoff: a's keys stay and LARGE_OBJ is set only if an operand had it.
ObjectCutoffOnSelf ==
    LET r == merge(a, b, config)
    IN /\ (/\ OBJECT \in a.type_mask
           /\ HasProperties(a)
           /\ Cardinality(KeysOf(a)) > config.max_object_keys)
          => /\ LARGE_OBJ \in r.type_mask
             /\ OBJECT \notin r.type_mask
             /\ IsNone(r.object_properties)
       /\ (/\ HasProperties(a)
           /\ Cardinality(KeysOf(a)) <= config.max_object_keys)
          => /\ HasProperties(r)
             /\ KeysOf(a) \subseteq KeysOf(r)
             /\ LARGE_OBJ \in r.type_mask
                  => LARGE_OBJ \in a.type_mask \cup b.type_mask

\* An object that earlier merges grew beyond max_object_keys faces an object.
ObjectCutoffOnSelfWitness ==
    /\ steps >= 1
    /\ IsObject(a) /\ IsObject(b)
    /\ Cardinality(KeysOf(a)) > config.max_object_keys
    /\ \E key \in KeysOf(a) :
         ABSENT \in Unwrap(a.object_properties)[key].type_mask

\* a.merge(b) passes the cutoff test: a has at most max_object_keys
\* properties, or no OBJECT when the test is made.
NoCutoffApplies ==
    \/ Cardinality(KeysOf(a)) <= config.max_object_keys
    \/ OBJECT \notin MergeStringSet(a, b, config).type_mask

\* The child of s under key, with ABSENT set.
AbsentChild(s, key) ==
    [Unwrap(s.object_properties)[key] EXCEPT !.type_mask = @ \cup {ABSENT}]

\* C28 (M5): when a and b have object_properties and no cutoff applies,
\* a.merge(b) has the union of the keys; a key of both maps to the merge of
\* the two children, with ABSENT only if a child had it; a key of one maps to
\* that child with ABSENT added.
PropertiesMerged ==
    (HasProperties(a) /\ HasProperties(b) /\ NoCutoffApplies)
    => LET r == merge(a, b, config)
       IN /\ HasProperties(r)
          /\ KeysOf(r) = KeysOf(a) \cup KeysOf(b)
          /\ \A key \in KeysOf(a) \cap KeysOf(b) :
               /\ Unwrap(r.object_properties)[key] =
                    merge(Unwrap(a.object_properties)[key],
                          Unwrap(b.object_properties)[key], config)
               /\ ABSENT \in Unwrap(r.object_properties)[key].type_mask
                    => ABSENT \in
                         Unwrap(a.object_properties)[key].type_mask
                         \cup Unwrap(b.object_properties)[key].type_mask
          /\ \A key \in KeysOf(a) \ KeysOf(b) :
               Unwrap(r.object_properties)[key] = AbsentChild(a, key)
          /\ \A key \in KeysOf(b) \ KeysOf(a) :
               Unwrap(r.object_properties)[key] = AbsentChild(b, key)

\* After a merge, two objects that share a key and differ in another.
PropertiesMergedWitness ==
    /\ steps >= 1
    /\ HasProperties(a) /\ HasProperties(b) /\ NoCutoffApplies
    /\ KeysOf(a) \cap KeysOf(b) # {}
    /\ KeysOf(a) # KeysOf(b)

\* C29: when exactly one of a and b has object_properties and no cutoff
\* applies, a.merge(b) has that operand's map, same keys, every child with
\* ABSENT set and otherwise unchanged.
PropertiesAdopted ==
    LET r == merge(a, b, config)
    IN /\ (HasProperties(a) /\ ~HasProperties(b) /\ NoCutoffApplies)
          => r.object_properties =
               Some([key \in KeysOf(a) |-> AbsentChild(a, key)])
       /\ (~HasProperties(a) /\ HasProperties(b))
          => r.object_properties =
               Some([key \in KeysOf(b) |-> AbsentChild(b, key)])

\* After a merge, an object with a child not yet marked ABSENT faces a node
\* without properties.
PropertiesAdoptedWitness ==
    /\ steps >= 1
    /\ HasProperties(a) /\ ~HasProperties(b) /\ NoCutoffApplies
    /\ \E key \in KeysOf(a) :
         ABSENT \notin Unwrap(a.object_properties)[key].type_mask

\* The strings of SampleValues.
SampleStrings ==
    { v.value : v \in { w \in SampleValues : w.kind = "String" } }

\* C30: infer_type on a string gives {STRING} without string_values when
\* consider_string_set is false or the string is longer than
\* max_string_set_variant_length, and {STRING_SET} with the singleton of the
\* string otherwise.
StringInferred ==
    \A str \in SampleStrings :
        infer_type(JString(str), config) =
            IF \/ ~config.consider_string_set
               \/ Len(str) > config.max_string_set_variant_length
            THEN SchemaOf({STRINGT}, None, None, None)
            ELSE SchemaOf({STRING_SET}, None, Some({str}), None)

\* Under consider_string_set, a is inferred from a string of length
\* max_string_set_variant_length + 1 and b from one of length
\* max_string_set_variant_length.
StringInferredWitness ==
    /\ steps = 0
    /\ config.consider_string_set
    /\ \E str \in SampleStrings :
         /\ Len(str) = config.max_string_set_variant_length + 1
         /\ a = infer_type(JString(str), config)
    /\ \E str \in SampleStrings :
         /\ Len(str) = config.max_string_set_variant_length
         /\ b = infer_type(JString(str), config)

\* C36: LARGE_OBJ is absorbing: a node that has LARGE_OBJ still has it after
\* any schema is merged into it, and has no object_properties.
LargeObjectAbsorbing ==
    LARGE_OBJ \in a.type_mask =>
        /\ LARGE_OBJ \in merge(a, b, config).type_mask
        /\ IsNone(merge(a, b, config).object_properties)

\* C37: under one Config, every node with array_items has ARRAY in its
\* type_mask, and no node has array_items when consider_array_items is false.
ArrayItemsOnlyOnArrays ==
    \A s \in {a, b, d} : \A n \in Nodes(s) :
        IsSome(n.array_items) =>
            ARRAY \in n.type_mask /\ config.consider_array_items

\* After two merges, a node with array_items whose mask has a tag beside
\* ARRAY.
ArrayItemsOnlyOnArraysWitness ==
    /\ steps >= 2
    /\ \E n \in Nodes(a) :
         IsSome(n.array_items) /\ n.type_mask # {ARRAY}

\* ------------------------------------------------------------ record parser

\* What a parsing step returns: ok, the value read, the bytes left.
Fail == [ok |-> FALSE, value |-> <<>>, rest |-> <<>>]
Ok(v, r) == [ok |-> TRUE, value |-> v, rest |-> r]

RECURSIVE ParseDigits(_)

\* The bytes left after the digits of a number.
ParseDigits(bytes) ==
    IF bytes # <<>> /\ Head(bytes) = DIGIT1
    THEN ParseDigits(Tail(bytes))
    ELSE bytes

RECURSIVE ParseChars(_, _)

\* The characters of a string up to its closing quote.
ParseChars(acc, bytes) ==
    IF bytes = <<>>
    THEN Fail
    ELSE IF Head(bytes) = QUOTE
    THEN Ok(acc, Tail(bytes))
    ELSE ParseChars(Append(acc, Head(bytes)), Tail(bytes))

RECURSIVE ParseValue(_)
RECURSIVE ParseElements(_, _)
RECURSIVE ParseMembers(_, _)

\* The elements of a non-empty array, after '[' or ','.
ParseElements(acc, bytes) ==
    LET r == ParseValue(bytes)
    IN IF ~r.ok \/ r.rest = <<>>
       THEN Fail
       ELSE IF Head(r.rest) = COMMA
       THEN ParseElements(Append(acc, r.value), Tail(r.rest))
       ELSE IF Head(r.rest) = RBRACKET
       THEN Ok(JArray(Append(acc, r.value)), Tail(r.rest))
       ELSE Fail

\* The members of a non-empty object, after '{' or ','; a repeated key keeps
\* its last value.
ParseMembers(acc, bytes) ==
    IF bytes = <<>> \/ Head(bytes) # QUOTE
    THEN Fail
    ELSE LET k == ParseChars(<<>>, Tail(bytes))
         IN IF ~k.ok \/ k.rest = <<>> \/ Head(k.rest) # COLON
            THEN Fail
            ELSE LET r == ParseValue(Tail(k.rest))
                     fields == (k.value :> r.value) @@ acc
                 IN IF ~r.ok \/ r.rest = <<>>
                    THEN Fail
                    ELSE IF Head(r.rest) = COMMA
                    THEN ParseMembers(fields, Tail(r.rest))
                    ELSE IF Head(r.rest) = RBRACE
                    THEN Ok(JObject(fields), Tail(r.rest))
                    ELSE Fail

\* One JSON value at the head of bytes, over the bytes of the model: the
\* number 1...1, a string, an array, an object.
ParseValue(bytes) ==
    IF bytes = <<>>
    THEN Fail
    ELSE CASE Head(bytes) = DIGIT1 -> Ok(ONE, ParseDigits(Tail(bytes)))
           [] Head(bytes) = QUOTE ->
                LET r == ParseChars(<<>>, Tail(bytes))
                IN IF r.ok THEN Ok(JString(r.value), r.rest) ELSE Fail
           [] Head(bytes) = LBRACKET ->
                IF Tail(bytes) # <<>> /\ Head(Tail(bytes)) = RBRACKET
                THEN Ok(JArray(<<>>), Tail(Tail(bytes)))
                ELSE ParseElements(<<>>, Tail(bytes))
           [] Head(bytes) = LBRACE ->
                IF Tail(bytes) # <<>> /\ Head(Tail(bytes)) = RBRACE
                THEN Ok(JObject(<<>>), Tail(Tail(bytes)))
                ELSE ParseMembers(<<>>, Tail(bytes))
           [] OTHER -> Fail

\* simd_json::to_borrowed_value on one line: Some(value), or None for Err.
to_borrowed_value(line) ==
    LET r == ParseValue(line)
    IN IF r.ok /\ r.rest = <<>> THEN Some(r.value) ELSE None

\* ---------------------------------------------------------- parallel driver

RECURSIVE SplitFrom(_, _, _)

\* chunk.split(|&b| b == b'\n'): the fragments between newlines, empty ones
\* included; cur is the fragment being read, done the ones already closed.
SplitFrom(bytes, cur, done) ==
    IF bytes = <<>>
    THEN Append(done, cur)
    ELSE IF Head(bytes) = NL
    THEN SplitFrom(Tail(bytes), <<>>, Append(done, cur))
    ELSE SplitFrom(Tail(bytes), Append(cur, Head(bytes)), done)

Split(bytes) == SplitFrom(bytes, <<>>, <<>>)

\* (0, None): state_initializer() and Default::default() of the accumulator
EmptyAcc == [total |-> 0, state |-> None]

\* Faulty variant of Processor: the first record is merged into itself.
ProcessorMergesFirst(json, acc, cfg) ==
    [total |-> acc.total + 1,
     state |-> IF IsSome(acc.state)
               THEN Some(merge(Unwrap(acc.state), infer_type(json, cfg), cfg))
               ELSE Some(merge(infer_type(json, cfg), infer_type(json, cfg),
                               cfg))]

\* The processor closure of process_file on one parsed record.
Processor(json, acc, cfg) ==
    [total |-> acc.total + 1,
     state |-> IF IsSome(acc.state)
               THEN Some(merge(Unwrap(acc.state), infer_type(json, cfg), cfg))
               ELSE Some(infer_type(json, cfg))]

RECURSIVE ProcessLines(_, _, _)

\* The loop of process_chunk_with_state over the fragments of a chunk.
ProcessLines(lines, acc, cfg) ==
    IF lines = <<>>
    THEN acc
    ELSE LET line == Head(lines)
             parsed == to_borrowed_value(line)
         IN ProcessLines(Tail(lines),
                         IF line = <<>>
                         THEN acc
                         ELSE IF IsSome(parsed)
                         THEN Processor(Unwrap(parsed), acc, cfg)
                         ELSE acc,
                         cfg)

\* process_chunk_with_state
process_chunk_with_state(chunk, acc, cfg) == ProcessLines(Split(chunk), acc, cfg)

\* The reducer closure of process_file reaches unreachable!().
ReducerPanics(l, r) == IsNone(l.state) /\ IsNone(r.state)

\* Faulty variant of AddCounts: the reducer keeps the left count only.
AddCountsLeftOnly(x, y) == x

\* x + y of the reducer closure
AddCounts(x, y) == x + y

\* Faulty variant of Reducer: a schema facing an absent one is dropped.
ReducerDropsLoneState(l, r, cfg) ==
    [total |-> AddCounts(l.total, r.total),
     state |-> IF IsSome(l.state) /\ IsSome(r.state)
               THEN Some(merge(Unwrap(l.state), Unwrap(r.state), cfg))
               ELSE None]

\* The reducer closure of process_file, where it does not panic.
Reducer(l, r, cfg) ==
    [total |-> AddCounts(l.total, r.total),
     state |-> IF IsSome(l.state) /\ IsSome(r.state)
               THEN Some(merge(Unwrap(l.state), Unwrap(r.state), cfg))
               ELSE IF IsSome(l.state) THEN l.state ELSE r.state]

Max(x, y) == IF x > y THEN x ELSE y

\* A task of rayon's bridge over the chunks lo..hi-1 (0-based) of boundaries.
Task(lo, hi, splits, migrated) ==
    [lo |-> lo, hi |-> hi, splits |-> splits, migrated |-> migrated,
     status |-> "ready", next |-> lo, acc |-> EmptyAcc]

\* LengthSplitter::try_split: a task of at least two chunks splits while it
\* has splits left or has been stolen.
TrySplit(t) == (t.hi - t.lo) \div 2 >= 1 /\ (t.migrated \/ t.splits > 0)

\* Splitter::try_split: the splits left to the two halves.
SplitsAfter(t) ==
    IF t.migrated THEN Max(num_threads, t.splits \div 2) ELSE t.splits \div 2

\* The lines of a file of Spec: a string, a number, a malformed line and an
\* empty line.
Lines == { <<QUOTE, LETTERA, QUOTE>>, <<DIGIT1>>, <<LETTERA>>, <<>> }

RECURSIVE Join(_)

\* The lines with a newline between each two.
Join(lines) ==
    IF Len(lines) = 0 THEN <<>>
    ELSE IF Len(lines) = 1 THEN lines[1]
    ELSE lines[1] \o <<NL>> \o Join(Tail(lines))

RECURSIVE LineSeqs(_)

\* The sequences of exactly n lines.
LineSeqs(n) ==
    IF n = 0
    THEN {<<>>}
    ELSE { <<line>> \o rest : line \in Lines, rest \in LineSeqs(n - 1) }

Files == { Join(lines) : lines \in UNION { LineSeqs(n) : n \in 0..MaxLines } }

\* The configurations of Spec: enums off, and enums on with sets of one.
RunConfigs ==
    { ConfigOf(1, 1, 1, FALSE, FALSE, 2), ConfigOf(1, 1, 1, TRUE, FALSE, 2) }

RunChunkSizes == {3, USIZE_MAX}

\* main has built the Config and ParallelJsonProcessor::new has mapped the
\* file.
Init ==
    /\ config \in RunConfigs
    /\ mmap \in Files
    /\ file_size = Len(mmap)
    /\ chunk_size \in RunChunkSizes
    /\ num_threads \in 1..MaxThreads
    /\ boundaries = <<>>
    /\ current_start = 0
    /\ tasks = <<>>
    /\ result = None
    /\ emitted = None
    /\ pc = "start"
    /\ a = SchemaNew({}) /\ b = SchemaNew({}) /\ d = SchemaNew({}) /\ steps = 0

\* process_with_thread_state: the chunk boundaries are computed and the
\* parallel iterator over them is handed to rayon's bridge as one task.
Start ==
    /\ pc = "start"
    /\ boundaries' = find_chunk_boundaries(mmap, file_size, chunk_size)
    /\ tasks' = (<<>> :> Task(0, Len(boundaries'), num_threads, FALSE))
    /\ pc' = "running"
    /\ UNCHANGED <<config, emitted, mvars, fvars, current_start, num_threads,
                 result>>

\* rayon splits a task in two halves; the right half may be stolen, which
\* only a half of two or more chunks ever reads (in its own try_split).
SplitTask(p) ==
    /\ pc = "running"
    /\ tasks[p].status = "ready"
    /\ TrySplit(tasks[p])
    /\ LET t == tasks[p]
           mid == t.lo + (t.hi - t.lo) \div 2
       IN \E stolen \in (IF num_threads > 1 /\ t.hi - mid >= 2
                          THEN BOOLEAN ELSE {FALSE}) :
            tasks' = (Append(p, 0) :> Task(t.lo, mid, SplitsAfter(t), FALSE))
                     @@ (Append(p, 1) :> Task(mid, t.hi, SplitsAfter(t), stolen))
                     @@ [tasks EXCEPT ![p].status = "split"]
    /\ UNCHANGED <<config, emitted, mvars, fvars, cvars, num_threads,
                 result, pc>>

\* A task that does not split becomes one fold_with folder: its accumulator
\* is a clone of state_initializer().
StartFold(p) ==
    /\ pc = "running"
    /\ tasks[p].status = "ready"
    /\ ~TrySplit(tasks[p])
    /\ tasks' = [tasks EXCEPT ![p].status = "folding", ![p].acc = EmptyAcc]
    /\ UNCHANGED <<config, emitted, mvars, fvars, cvars, num_threads,
                 result, pc>>

\* The fold closure on the next chunk of a folder: process_chunk_with_state.
FoldChunk(p) ==
    /\ pc = "running"
    /\ tasks[p].status = "folding"
    /\ tasks[p].next < tasks[p].hi
    /\ LET t == tasks[p]
           range == boundaries[t.next + 1]
           chunk == Slice(mmap, range[1], range[2])
       IN tasks' = [tasks EXCEPT
                      ![p].acc = process_chunk_with_state(chunk, t.acc, config),
                      ![p].next = t.next + 1]
    /\ UNCHANGED <<config, emitted, mvars, fvars, cvars, num_threads,
                 result, pc>>

\* A folder is complete: its accumulator goes to rayon's reduce folder, which
\* applies the reducer to Default::default() and it.
FoldComplete(p) ==
    /\ pc = "running"
    /\ tasks[p].status = "folding"
    /\ tasks[p].next = tasks[p].hi
    /\ IF ReducerPanics(EmptyAcc, tasks[p].acc)
       THEN pc' = "panicked" /\ tasks' = tasks
       ELSE /\ tasks' = [tasks EXCEPT
                           ![p].status = "done",
                           ![p].acc = Reducer(EmptyAcc, tasks[p].acc, config)]
            /\ pc' = pc
    /\ UNCHANGED <<config, emitted, mvars, fvars, cvars, num_threads,
                 result>>

\* Both halves of a split task are done: the reducer combines left and right.
ReduceTask(p) ==
    /\ pc = "running"
    /\ tasks[p].status = "split"
    /\ tasks[Append(p, 0)].status = "done"
    /\ tasks[Append(p, 1)].status = "done"
    /\ LET l == tasks[Append(p, 0)].acc
           r == tasks[Append(p, 1)].acc
       IN IF ReducerPanics(l, r)
          THEN pc' = "panicked" /\ tasks' = tasks
          ELSE /\ tasks' =
                    [q \in DOMAIN tasks \ {Append(p, 0), Append(p, 1)} |->
                       IF q = p
                       THEN [tasks[p] EXCEPT !.status = "done",
                                             !.acc = Reducer(l, r, config)]
                       ELSE tasks[q]]
               /\ pc' = pc
    /\ UNCHANGED <<config, emitted, mvars, fvars, cvars, num_threads,
                 result>>

\* The root task is done: process_with_thread_state returns its accumulator
\* and process_file takes the schema out of it.
Finish ==
    /\ pc = "running"
    /\ tasks[<<>>].status = "done"
    /\ result' = Some(tasks[<<>>].acc)
    /\ pc' = IF IsSome(tasks[<<>>].acc.state) THEN "done" ELSE "panicked"
    /\ UNCHANGED <<config, emitted, mvars, fvars, cvars, num_threads,
                 tasks>>

Next ==
    \/ Start
    \/ \E p \in DOMAIN tasks : SplitTask(p)
    \/ \E p \in DOMAIN tasks : StartFold(p)
    \/ \E p \in DOMAIN tasks : FoldChunk(p)
    \/ \E p \in DOMAIN tasks : FoldComplete(p)
    \/ \E p \in DOMAIN tasks : ReduceTask(p)
    \/ Finish

Spec == Init /\ [][Next]_vars

\* The chunk list of the run, as Start computes it.
RunBoundaries == find_chunk_boundaries(mmap, file_size, chunk_size)

RECURSIVE FoldRange(_, _, _)

\* The accumulator of one folder given the chunks lo..hi-1, from acc.
FoldRange(lo, hi, acc) ==
    IF lo >= hi
    THEN acc
    ELSE LET range == RunBoundaries[lo + 1]
         IN FoldRange(lo + 1, hi,
                      process_chunk_with_state(Slice(mmap, range[1], range[2]),
                                               acc, config))

\* What one folder over the chunks lo..hi-1 hands on: None for a panic.
FolderOutcome(lo, hi) ==
    LET acc == FoldRange(lo, hi, EmptyAcc)
    IN IF ReducerPanics(EmptyAcc, acc)
       THEN None
       ELSE Some(Reducer(EmptyAcc, acc, config))

RECURSIVE EveryChunkAlone(_, _)

\* The outcome of the schedule in which rayon splits down to single chunks
\* (a pool of at least as many threads as chunks): None for a panic.
EveryChunkAlone(lo, hi) ==
    IF (hi - lo) \div 2 >= 1
    THEN LET mid == lo + (hi - lo) \div 2
             l == EveryChunkAlone(lo, mid)
             r == EveryChunkAlone(mid, hi)
         IN IF IsNone(l) \/ IsNone(r) THEN None
            ELSE IF ReducerPanics(Unwrap(l), Unwrap(r)) THEN None
            ELSE Some(Reducer(Unwrap(l), Unwrap(r), config))
    ELSE FolderOutcome(lo, hi)

\* C3: the reduction is valid under work-stealing: whatever way the chunks
\* are assigned to accumulators and combined, a run that ends, ends with the
\* (count, schema) of the run that gives every chunk its own accumulator.
ReductionIndependentOfSchedule ==
    LET alone == EveryChunkAlone(0, Len(RunBoundaries))
    IN (pc = "done" /\ IsSome(alone)) => Unwrap(result) = Unwrap(alone)

\* The length of the longest line of the file.
MaxLineLength ==
    LET lines == Split(mmap)
    IN CHOOSE n \in 0..file_size :
         /\ \A i \in 1..Len(lines) : Len(lines[i]) <= n
         /\ \E i \in 1..Len(lines) : Len(lines[i]) = n

\* The accumulator of the run whose chunk size is at least the file size:
\* one chunk, one folder.
SingleChunkAcc ==
    Reducer(EmptyAcc, process_chunk_with_state(mmap, EmptyAcc, config), config)

\* C4: chunk-boundary invariance: a run with a chunk size of at least the
\* longest line ends with the schema of the run whose only chunk is the file.
SchemaIndependentOfChunkSize ==
    (pc = "done" /\ chunk_size >= MaxLineLength) =>
        Unwrap(result).state = SingleChunkAcc.state

\* The number of lines of the file that are non-empty and parse.
GoodLineCount ==
    LET lines == Split(mmap)
    IN Cardinality({ i \in 1..Len(lines) :
                       lines[i] # <<>> /\ IsSome(to_borrowed_value(lines[i])) })

\* C5: record-count linearity: the count a run ends with is the number of
\* non-empty lines of the file that parse.
CountIsGoodLineCount ==
    pc = "done" => Unwrap(result).total = GoodLineCount

\* A finished run over several chunks whose file has three good lines, a
\* malformed line and more than one folder.
CountIsGoodLineCountWitness ==
    /\ pc = "done"
    /\ Unwrap(result).total = 3
    /\ Len(boundaries) >= 3
    /\ \E i \in 1..Len(Split(mmap)) :
         Split(mmap)[i] # <<>> /\ IsNone(to_borrowed_value(Split(mmap)[i]))

\* C6: skip-and-continue: a file with at least one line that parses is
\* processed to the end, wherever its malformed lines fall.
MalformedLineNeverAborts ==
    GoodLineCount > 0 => pc # "panicked"

\* C15: the empty accumulator (0, None) is an identity of the reducer on both
\* sides: combined with the accumulator of any task that holds a schema, it
\* gives that accumulator back, count and schema unchanged.
EmptyAccumulatorIsIdentity ==
    \A p \in DOMAIN tasks :
        IsSome(tasks[p].acc.state) =>
            /\ Reducer(tasks[p].acc, EmptyAcc, config) = tasks[p].acc
            /\ Reducer(EmptyAcc, tasks[p].acc, config) = tasks[p].acc

\* A folder that processed two records or more has been completed, its
\* accumulator combined with the empty one.
EmptyAccumulatorIsIdentityWitness ==
    \E p \in DOMAIN tasks :
        /\ tasks[p].status = "done"
        /\ tasks[p].hi - tasks[p].lo = 1
        /\ IsSome(tasks[p].acc.state)
        /\ tasks[p].acc.total >= 2

\* ------------------------------------------------------- one record inferred

\* The configurations of SpecInfer: those of SpecMerge, max_array_items from 0.
InferConfigs ==
    { ConfigOf(k, n, 1, ss, ai, m) :
        k \in 1..MaxKeysBound, n \in 1..MaxSetBound,
        ss \in BOOLEAN, ai \in BOOLEAN, m \in 0..MaxItemsBound }

\* The texts of the array elements: 1, "a", "b".
ElementTexts ==
    { <<DIGIT1>>, <<QUOTE, LETTERA, QUOTE>>, <<QUOTE, LETTERB, QUOTE>> }

RECURSIVE ArrayTexts(_)

\* The texts of n elements separated by commas.
ArrayTexts(n) ==
    IF n = 0
    THEN {<<>>}
    ELSE IF n = 1
    THEN ElementTexts
    ELSE { e \o <<COMMA>> \o rest :
             e \in ElementTexts, rest \in ArrayTexts(n - 1) }

RECURSIVE MemberTexts(_)

\* The text of the members "a":1, "b":1, ... of an object of n keys.
MemberTexts(n) ==
    IF n = 0
    THEN <<>>
    ELSE (IF n = 1 THEN <<>> ELSE MemberTexts(n - 1) \o <<COMMA>>)
         \o <<QUOTE, LETTERA + (n - 1), QUOTE, COLON, DIGIT1>>

\* The lines of SpecInfer: every array of at most MaxArrayLen elements and
\* the objects of up to MaxKeysBound + 1 keys.
RecordLines ==
    { <<LBRACKET>> \o t \o <<RBRACKET>> :
        t \in UNION { ArrayTexts(n) : n \in 0..MaxArrayLen } }
    \cup { <<LBRACE>> \o MemberTexts(n) \o <<RBRACE>> :
             n \in 0..(MaxKeysBound + 1) }

\* A file of one line has been mapped.
InitInfer ==
    /\ config \in InferConfigs
    /\ mmap \in RecordLines
    /\ file_size = Len(mmap)
    /\ chunk_size = USIZE_MAX
    /\ boundaries = <<>> /\ current_start = 0
    /\ num_threads = 1 /\ tasks = <<>> /\ result = None
    /\ emitted = None
    /\ a = SchemaNew({}) /\ b = SchemaNew({}) /\ d = SchemaNew({}) /\ steps = 0
    /\ pc = "record"

\* process_chunk_with_state on the one chunk of the file, from the empty
\* accumulator: the line is parsed and handed to the processor closure.
InferRecord ==
    /\ pc = "record"
    /\ result' = Some(process_chunk_with_state(mmap, EmptyAcc, config))
    /\ pc' = "inferred"
    /\ UNCHANGED <<config, emitted, mvars, fvars, cvars, num_threads, tasks>>

NextInfer == InferRecord

SpecInfer == InitInfer /\ [][NextInfer]_vars

\* The record of the file, as parsed.
RecordValue == Unwrap(to_borrowed_value(mmap))

\* The schema the accumulator holds.
RecordSchema == Unwrap(Unwrap(result).state)

RECURSIVE LeftMerge(_, _)

\* The schemas of the elements merged left to right: none for no element,
\* else the merge of the last element's schema into that of the ones before.
LeftMerge(elems, cfg) ==
    IF Len(elems) = 0
    THEN None
    ELSE IF Len(elems) = 1
    THEN Some(infer_type(elems[1], cfg))
    ELSE Some(merge(Unwrap(LeftMerge(SubSeq(elems, 1, Len(elems) - 1), cfg)),
                    infer_type(elems[Len(elems)], cfg), cfg))

\* The first n elements of a sequence.
Prefix(seq, n) == [i \in 1..(IF Len(seq) < n THEN Len(seq) ELSE n) |-> seq[i]]

\* C31: infer_type on an array gives {ARRAY}; with consider_array_items its
\* array_items is the left-to-right merge of the schemas of the first
\* max_array_items elements, none for no such element; without, none.
ArrayInferred ==
    (pc = "inferred" /\ RecordValue.kind = "Array") =>
        /\ RecordSchema.type_mask = {ARRAY}
        /\ IsNone(RecordSchema.object_properties)
        /\ IsNone(RecordSchema.string_values)
        /\ RecordSchema.array_items =
             IF config.consider_array_items
             THEN LeftMerge(Prefix(RecordValue.arr, config.max_array_items),
                            config)
             ELSE None

\* An array longer than max_array_items >= 2 has been inferred, its last
\* element unlike the ones sampled.
ArrayInferredWitness ==
    /\ pc = "inferred"
    /\ RecordValue.kind = "Array"
    /\ config.consider_array_items
    /\ config.max_array_items >= 2
    /\ Len(RecordValue.arr) > config.max_array_items
    /\ \A i \in 1..config.max_array_items :
         RecordValue.arr[i] # RecordValue.arr[Len(RecordValue.arr)]
    /\ RecordValue.arr[1] # RecordValue.arr[2]

\* C32: infer_type on an object gives {OBJECT} with one property per key,
\* however many keys, and a corpus of that one record ends with this schema.
ObjectInferredWithoutCutoff ==
    (pc = "inferred" /\ RecordValue.kind = "Object") =>
        /\ Unwrap(result).total = 1
        /\ RecordSchema.type_mask = {OBJECT}
        /\ HasProperties(RecordSchema)
        /\ KeysOf(RecordSchema) = DOMAIN RecordValue.inner
        /\ \A key \in DOMAIN RecordValue.inner :
             Unwrap(RecordSchema.object_properties)[key] =
                 infer_type(RecordValue.inner[key], config)

\* An object of more than max_object_keys keys has been inferred.
ObjectInferredWithoutCutoffWitness ==
    /\ pc = "inferred"
    /\ RecordValue.kind = "Object"
    /\ Cardinality(DOMAIN RecordValue.inner) > config.max_object_keys

\* ------------------------------------------------- lines handed to the parser

\* The fragments of a chunk process_chunk_with_state hands to
\* to_borrowed_value, in order: the non-empty ones.
ParserInputs(chunk) == SelectSeq(Split(chunk), LAMBDA line : line # <<>>)

RECURSIVE ParserInputsOfChunks(_)

\* The fragments handed to the parser over the ranges, in range order.
ParserInputsOfChunks(ranges) ==
    IF ranges = <<>>
    THEN <<>>
    ELSE ParserInputs(Slice(mmap, ranges[1][1], ranges[1][2]))
         \o ParserInputsOfChunks(Tail(ranges))

\* C33: over the ranges find_chunk_boundaries returns, the parser is handed
\* the non-empty lines of the file, each whole and once, and nothing else.
EachLineParsedOnce ==
    pc = "chunked" => ParserInputsOfChunks(boundaries) = ParserInputs(mmap)

\* A file cut into two ranges or more that has an empty line and ends
\* without a newline.
EachLineParsedOnceWitness ==
    /\ pc = "chunked"
    /\ Len(boundaries) >= 2
    /\ mmap[file_size] # NL
    /\ \E i \in 1..(file_size - 1) : mmap[i] = NL /\ mmap[i + 1] = NL

\* The loop of find_chunk_boundaries, every iteration of which is taken in
\* the end.
SpecChunkFair == SpecChunk /\ WF_vars(NextChunk)

\* Every range pushed so far is non-empty.
RangesNonEmpty ==
    \A i \in 1..Len(boundaries) : boundaries[i][1] < boundaries[i][2]

\* What find_chunk_boundaries returns for an empty file and for a buffer
\* without newline from the first tentative end on.
SingleRangeCases ==
    pc = "chunked" =>
        /\ file_size = 0 => boundaries = <<>>
        /\ (/\ file_size > 0
            /\ \A i \in TentativeEnd(0, chunk_size, file_size)..(file_size - 1) :
                 ByteAt(mmap, i) # NL)
           => boundaries = << <<0, file_size>> >>

\* C35: find_chunk_boundaries returns for every file length and chunk size;
\* every range is non-empty; an empty file gives no range and a buffer
\* without newline at or after the first tentative end gives (0, N) alone.
ChunkerTerminates ==
    /\ <>(pc = "chunked")
    /\ [](RangesNonEmpty /\ SingleRangeCases)

\* The chunker has returned two ranges or more under chunk_size = 0.
ChunkerTerminatesWitness ==
    pc = "chunked" /\ chunk_size = 0 /\ Len(boundaries) >= 2

\* C34: no run applies the reducer to two accumulators without schema: the
\* unreachable!() arm of the reducer closure is never reached.
UnreachableNeverReached == pc # "panicked"

====
